---------------------------- MODULE Spec2Model ----------------------------
(***************************************************************************)
(* Model of the climate entity of custom_components/xiaomi_miot            *)
(* (climate.py, MiotClimateEntity): the power-state chain (is_on, turn_on, *)
(* turn_off), the HVAC mode translation (hvac_mode, set_hvac_mode), the    *)
(* target temperature / humidity setters, the swing bitmask, the fan mode  *)
(* and the feature flags; and of the fan entity and the washer sub-entity  *)
(* of fan.py (MiotFanEntity, MiotWasherSubEntity).                         *)
(*                                                                         *)
(* Python values are modelled as integers: True = 1, False = 0 (as in      *)
(* Python, where True == 1), None is the value None below.  A state key    *)
(* that is absent from _state_attrs holds None.                            *)
(***************************************************************************)
EXTENDS Integers, Sequences, FiniteSets

VARIABLES cfg,    \* the device schema as resolved by __init__ (never changes)
          attrs,  \* _state_attrs: state key -> value
          pre,    \* _state_attrs as it was when the last operation started
          op,     \* the last facade operation and its arguments
          ret,    \* what the last operation returned (or Raised)
          log     \* the transport calls the last operation made, in order

vars == <<cfg, attrs, pre, op, ret, log>>

-----------------------------------------------------------------------------
(* Values *)

None == -100
\* the outcome of an operation that ended in an exception
Raised == -200

\* bounds of the model
MaxTemp == 2
MaxCalls == 4

DEFAULT_MIN_TEMP == 16
DEFAULT_MAX_TEMP == 31

Truthy(v) == v # None /\ v # 0

\* Python's "x and True"
AndTrue(v) == IF Truthy(v) THEN 1 ELSE v

HVAC_MODE_OFF == "off"
HVAC_MODE_AUTO == "auto"
HVAC_MODE_COOL == "cool"
HVAC_MODE_HEAT == "heat"
HVAC_MODE_DRY == "dry"
HVAC_MODE_FAN_ONLY == "fan_only"
HVAC_MODE_HEAT_COOL == "heat_cool"
\* hvac_mode's "return None"
HVAC_NONE == "none"

\* the keys of self._hvac_modes, in insertion order
HvacOrder == <<HVAC_MODE_OFF, HVAC_MODE_AUTO, HVAC_MODE_COOL,
               HVAC_MODE_HEAT, HVAC_MODE_DRY, HVAC_MODE_FAN_ONLY>>

\* self._hvac_modes[mk]['list']
HvacList(mk) ==
    CASE mk = HVAC_MODE_OFF -> <<"Off", "Idle", "None">>
      [] mk = HVAC_MODE_AUTO -> <<"Auto">>
      [] mk = HVAC_MODE_COOL -> <<"Cool">>
      [] mk = HVAC_MODE_HEAT -> <<"Heat">>
      [] mk = HVAC_MODE_DRY -> <<"Dry">>
      [] mk = HVAC_MODE_FAN_ONLY -> <<"Fan">>
      [] OTHER -> <<>>

\* self._power_modes
power_modes == <<"blow", "heating", "ventilation">>

-----------------------------------------------------------------------------
(* State keys.  A property's full_name is "<service>.<name>"; its name is   *)
(* the bare name.                                                          *)

full_name(srv, name) ==
    CASE srv = "air_conditioner" /\ name = "on" -> "air_conditioner.on"
      [] srv = "air_conditioner" /\ name = "blow" -> "air_conditioner.blow"
      [] srv = "air_conditioner" /\ name = "heating" -> "air_conditioner.heating"
      [] srv = "air_conditioner" /\ name = "ventilation" -> "air_conditioner.ventilation"
      [] srv = "air_conditioner" /\ name = "mode" -> "air_conditioner.mode"
      [] srv = "air_conditioner" /\ name = "target_temperature" -> "air_conditioner.target_temperature"
      [] srv = "air_conditioner" /\ name = "target_humidity" -> "air_conditioner.target_humidity"
      [] srv = "fan_control" /\ name = "on" -> "fan_control.on"
      [] srv = "fan_control" /\ name = "vertical_swing" -> "fan_control.vertical_swing"
      [] srv = "fan_control" /\ name = "horizontal_swing" -> "fan_control.horizontal_swing"
      [] srv = "air_conditioner" /\ name = "fan_level" -> "air_conditioner.fan_level"
      [] srv = "fan_control" /\ name = "fan_level" -> "fan_control.fan_level"

KeyPower == full_name("air_conditioner", "on")
KeyMode == full_name("air_conditioner", "mode")
KeyTargetTemp == full_name("air_conditioner", "target_temperature")
KeyTargetHumi == full_name("air_conditioner", "target_humidity")
KeyFanPower == full_name("fan_control", "on")
KeyVerticalSwing == full_name("fan_control", "vertical_swing")
KeyHorizontalSwing == full_name("fan_control", "horizontal_swing")
KeyPowerMode(m) == full_name("air_conditioner", m)

\* self._prop_fan_level.full_name: the fan_level of fan_control when the
\* device has that service (line 116), of the primary service otherwise
KeyFanLevel(c) ==
    IF c.fan_control THEN full_name("fan_control", "fan_level")
    ELSE full_name("air_conditioner", "fan_level")

PowerModeNames == {power_modes[i] : i \in 1..Len(power_modes)}

Keys == {KeyPower, KeyMode, KeyTargetTemp, KeyTargetHumi, KeyFanPower,
         KeyVerticalSwing, KeyHorizontalSwing}
        \cup {KeyPowerMode(m) : m \in PowerModeNames}
        \cup {"vertical_swing", "horizontal_swing", "power"}
        \cup {full_name("air_conditioner", "fan_level"),
              full_name("fan_control", "fan_level")}


-----------------------------------------------------------------------------
(* Property descriptors (core/miot_spec.py, MiotProperty).  A value list   *)
(* is a sequence of records [value, description].                          *)

\* MiotProperty.list_value(des): the value of the first entry described des
RECURSIVE list_value(_, _)
list_value(vl, des) ==
    IF vl = <<>> THEN None
    ELSE IF Head(vl).description = des THEN Head(vl).value
    ELSE list_value(Tail(vl), des)

\* MiotProperty.list_first(*args): the value of the first candidate, in
\* argument order, that the value list declares
RECURSIVE list_first(_, _)
list_first(vl, args) ==
    IF args = <<>> THEN None
    ELSE IF list_value(vl, Head(args)) # None THEN list_value(vl, Head(args))
    ELSE list_first(vl, Tail(args))

\* MiotProperty.from_dict(dat, default): dat.get(self.full_name, default)
from_dict(key, dat, default) == IF dat[key] = None THEN default ELSE dat[key]

-----------------------------------------------------------------------------
(* Device schemas *)

NoProp == [present |-> FALSE, value_list |-> <<>>, min |-> 0, max |-> 0]
ListProp(vl) == [present |-> TRUE, value_list |-> vl, min |-> 0, max |-> 0]
RangeProp(lo, hi) == [present |-> TRUE, value_list |-> <<>>, min |-> lo, max |-> hi]

VL(v, d) == [value |-> v, description |-> d]

\* the mode value lists the model draws from: with "Idle" listed before
\* "Off", with "None" as the only Off candidate, and without any
ModeLists ==
    { <<VL(0, "Idle"), VL(1, "Off"), VL(2, "Heat")>>,
      <<VL(1, "Cool"), VL(2, "None")>>,
      <<VL(0, "Auto"), VL(1, "Cool")>> }

\* the sets of alternate-power properties the model draws from
PowerPropSets == { {}, {"blow"}, {"heating", "ventilation"} }

BoolValues == {0, 1}

TempValues == 1..MaxTemp

Ranges == {RangeProp(lo, hi) : lo \in TempValues, hi \in TempValues}

\* self._prop_fan_level: the primary service's fan_level (line 101),
\* replaced by fan_control's, present or not, when the device has a
\* fan_control service (lines 114-116)
prop_fan_level(c) == IF c.fan_control THEN c.fc_fan_level ELSE c.srv_fan_level

\* self._miot_service.bool_property(m)
bool_property(c, m) == m \in c.power_props

\* self._hvac_modes[mk].get('value') as filled in by __init__
hvac_value(c, mk) ==
    IF c.prop_mode.present THEN list_first(c.prop_mode.value_list, HvacList(mk))
    ELSE None

AllHvacModes == {HvacOrder[i] : i \in 1..Len(HvacOrder)} \cup {HVAC_MODE_HEAT_COOL}

-----------------------------------------------------------------------------
(* The transport.  A handler runs on a record st = [a, l, r]: the cached   *)
(* state, the calls made so far and the value returned.  oks[i] says       *)
(* whether the i-th transport call of the handler succeeds.                *)

Start(a) == [a |-> a, l |-> <<>>, r |-> None]

Return(st, r) == [st EXCEPT !.r = r]

Ok(st, oks) == oks[Len(st.l) + 1]

\* MiotEntity.set_property(field, value): writeProperty; a write that
\* succeeds is reflected in the cached state
set_property(st, oks, field, value) ==
    [a |-> IF Ok(st, oks) THEN [st.a EXCEPT ![field] = value] ELSE st.a,
     l |-> Append(st.l, [kind |-> "set", key |-> field, val |-> value,
                         ok |-> Ok(st, oks)]),
     r |-> IF Ok(st, oks) THEN 1 ELSE 0]

\* MiotEntity.miot_action(siid, aiid): invokeAction
miot_action(st, oks, action) ==
    [a |-> st.a,
     l |-> Append(st.l, [kind |-> "action", key |-> action, val |-> None,
                         ok |-> Ok(st, oks)]),
     r |-> IF Ok(st, oks) THEN 1 ELSE 0]

\* MiotEntity.update_attrs({key: value})
update_attrs(st, key, value) == [st EXCEPT !.a[key] = value]

-----------------------------------------------------------------------------
(* MiotClimateEntity: power state *)

AnyPowerModeOn(c, a) ==
    \E i \in 1..Len(power_modes) :
        bool_property(c, power_modes[i]) /\ Truthy(a[KeyPowerMode(power_modes[i])])

\* is_on without the loop over self._power_modes
is_on_without_power_modes(c, a) ==
    IF c.prop_power THEN AndTrue(from_dict(KeyPower, a, None))
    ELSE IF c.prop_mode.present /\ hvac_value(c, HVAC_MODE_OFF) # None
    THEN (IF hvac_value(c, HVAC_MODE_OFF) # from_dict(KeyMode, a, None) THEN 1 ELSE 0)
    ELSE IF a["power"] # None THEN AndTrue(a["power"])
    ELSE None

\* is_on going on to the next source when the power property holds nothing
is_on_falling_through(c, a) ==
    IF c.prop_power /\ from_dict(KeyPower, a, None) # None
    THEN AndTrue(from_dict(KeyPower, a, None))
    ELSE IF AnyPowerModeOn(c, a) THEN 1
    ELSE IF c.prop_mode.present /\ hvac_value(c, HVAC_MODE_OFF) # None
    THEN (IF hvac_value(c, HVAC_MODE_OFF) # from_dict(KeyMode, a, None) THEN 1 ELSE 0)
    ELSE IF a["power"] # None THEN AndTrue(a["power"])
    ELSE None

\* is_on: True (1), False (0) or None
is_on(c, a) ==
    IF c.prop_power THEN AndTrue(from_dict(KeyPower, a, None))
    ELSE IF AnyPowerModeOn(c, a) THEN 1
    ELSE IF c.prop_mode.present /\ hvac_value(c, HVAC_MODE_OFF) # None
    THEN (IF hvac_value(c, HVAC_MODE_OFF) # from_dict(KeyMode, a, None) THEN 1 ELSE 0)
    ELSE IF a["power"] # None THEN AndTrue(a["power"])
    ELSE None

\* hvac_modes: the modes with a resolved value, and HVAC_MODE_OFF
hvac_modes(c) ==
    {mk \in AllHvacModes : c.prop_mode.present /\ hvac_value(c, mk) # None}
    \cup {HVAC_MODE_OFF}

\* the for loop of hvac_mode over self._hvac_modes.items(), from index i
RECURSIVE hvac_mode_scan(_, _, _)
hvac_mode_scan(c, acm, i) ==
    IF i > Len(HvacOrder) THEN HVAC_NONE
    ELSE IF acm = hvac_value(c, HvacOrder[i]) THEN HvacOrder[i]
    ELSE hvac_mode_scan(c, acm, i + 1)

\* hvac_mode
hvac_mode(c, a) ==
    IF ~Truthy(is_on(c, a)) THEN HVAC_MODE_OFF
    ELSE IF c.prop_mode.present
    THEN LET acm == from_dict(KeyMode, a, None)
         IN  hvac_mode_scan(c, IF acm = None THEN -1 ELSE acm, 1)
    ELSE HVAC_NONE

\* set_hvac_mode for a mode other than HVAC_MODE_OFF (lines 304-311)
set_hvac_mode_on(c, st, oks, mode) ==
    IF ~c.prop_mode.present THEN Return(st, 0)
    ELSE LET s1 == IF c.prop_power /\ ~Truthy(is_on(c, st.a))
                   THEN set_property(st, oks, KeyPower, 1)
                   ELSE st
             val == hvac_value(c, mode)
         IN  IF val = None THEN Return(s1, 0)
             ELSE set_property(s1, oks, KeyMode, val)

\* the last loop of turn_on: the first of these modes that hvac_modes lists
TurnOnModes == <<HVAC_MODE_HEAT_COOL, HVAC_MODE_AUTO, HVAC_MODE_HEAT, HVAC_MODE_COOL>>

RECURSIVE turn_on_by_mode(_, _, _, _)
turn_on_by_mode(c, st, oks, i) ==
    IF i > Len(TurnOnModes) THEN Return(st, 0)
    ELSE IF TurnOnModes[i] \notin hvac_modes(c) THEN turn_on_by_mode(c, st, oks, i + 1)
    ELSE set_hvac_mode_on(c, st, oks, TurnOnModes[i])

\* the index of the first alternate-power property the service declares, or 0
FirstPowerMode(c) ==
    IF \E i \in 1..Len(power_modes) : bool_property(c, power_modes[i])
    THEN CHOOSE i \in 1..Len(power_modes) :
            /\ bool_property(c, power_modes[i])
            /\ \A j \in 1..(i - 1) : ~bool_property(c, power_modes[j])
    ELSE 0

\* turn_on
turn_on(c, st, oks) ==
    IF c.prop_power THEN set_property(st, oks, KeyPower, 1)
    ELSE IF FirstPowerMode(c) # 0
    THEN set_property(st, oks, KeyPowerMode(power_modes[FirstPowerMode(c)]), 1)
    ELSE IF c.prop_fan_power THEN set_property(st, oks, KeyFanPower, 1)
    ELSE LET s1 == IF c.power_on_action
                   THEN miot_action(st, oks, "viomi_bath_heater.power_on")
                   ELSE st
         IN  IF c.power_on_action /\ Truthy(s1.r)
             THEN Return(update_attrs(s1, "power", 1), s1.r)
             ELSE turn_on_by_mode(c, s1, oks, 1)

\* the loop of turn_off over self._power_modes, from index i; st.r is ret
RECURSIVE turn_off_power_modes(_, _, _, _)
turn_off_power_modes(c, st, oks, i) ==
    IF i > Len(power_modes) THEN st
    ELSE IF ~bool_property(c, power_modes[i]) THEN turn_off_power_modes(c, st, oks, i + 1)
    ELSE turn_off_power_modes(c, set_property(st, oks, KeyPowerMode(power_modes[i]), 0),
                              oks, i + 1)

\* turn_off
turn_off(c, st, oks) ==
    IF c.prop_power THEN set_property(st, oks, KeyPower, 0)
    ELSE IF c.prop_mode.present /\ hvac_value(c, HVAC_MODE_OFF) # None
    THEN set_property(st, oks, KeyMode, hvac_value(c, HVAC_MODE_OFF))
    ELSE LET s1 == IF c.stop_action
                   THEN miot_action(st, oks, "air_conditioner.stop_working")
                   ELSE st
         IN  IF c.stop_action /\ Truthy(s1.r)
             THEN Return(update_attrs(s1, "power", 0), s1.r)
             ELSE LET s2 == turn_off_power_modes(c, Return(s1, None), oks, 1)
                  IN  IF s2.r # None THEN s2
                      ELSE IF c.prop_fan_power THEN set_property(s2, oks, KeyFanPower, 0)
                      ELSE Return(s2, 0)

\* set_hvac_mode
set_hvac_mode(c, st, oks, mode) ==
    IF mode = HVAC_MODE_OFF THEN turn_off(c, st, oks)
    ELSE set_hvac_mode_on(c, st, oks, mode)

-----------------------------------------------------------------------------
(* MiotClimateEntity: target temperature and humidity *)

\* min_temp
min_temp(c) ==
    IF c.prop_target_temp.present THEN c.prop_target_temp.min ELSE DEFAULT_MIN_TEMP

\* max_temp
max_temp(c) ==
    IF c.prop_target_temp.present THEN c.prop_target_temp.max ELSE DEFAULT_MAX_TEMP

\* the clamp without its second if statement
ClampTempNoMax(c, val) == IF val < min_temp(c) THEN min_temp(c) ELSE val

\* the two if statements of set_temperature (lines 371-374)
ClampTemp(c, val) ==
    LET v1 == IF val < min_temp(c) THEN min_temp(c) ELSE val
    IN  IF v1 > max_temp(c) THEN max_temp(c) ELSE v1

\* kwargs without ATTR_HVAC_MODE / without ATTR_TEMPERATURE
NoMode == ""
NoSwing == ""

\* set_temperature(**kwargs); the write through self._prop_target_temp
\* raises AttributeError when the property is None
set_temperature(c, st, oks, mode, temperature) ==
    LET s1 == IF mode # NoMode THEN set_hvac_mode(c, st, oks, mode) ELSE Return(st, 0)
    IN  IF temperature = None THEN s1
        ELSE IF ~c.prop_target_temp.present THEN Return(s1, Raised)
        ELSE set_property(s1, oks, KeyTargetTemp, ClampTemp(c, temperature))

\* set_humidity
set_humidity(c, st, oks, humidity) ==
    IF c.prop_target_humi.present THEN set_property(st, oks, KeyTargetHumi, humidity)
    ELSE Return(st, 0)

-----------------------------------------------------------------------------
(* MiotClimateEntity: swing *)

\* class SwingModes(Enum)
SwingModes == <<"Off", "Vertical", "Horizontal", "Steric">>

SwingName(val) == SwingModes[val + 1]

SwingValue(name) == CHOOSE v \in 0..3 : SwingModes[v + 1] = name

\* MiotProperty.name of the two swing properties
NameVerticalSwing == "vertical_swing"
NameHorizontalSwing == "horizontal_swing"

\* swing_mode
swing_mode(c, a) ==
    SwingName((IF c.prop_vertical_swing /\ Truthy(from_dict(KeyVerticalSwing, a, 0))
               THEN 1 ELSE 0)
              + (IF c.prop_horizontal_swing /\ Truthy(from_dict(KeyHorizontalSwing, a, 0))
                 THEN 2 ELSE 0))

\* ver and hor of set_swing_mode (lines 455-468)
SwingVer(val) == IF val \in {1, 3} THEN 1 ELSE 0
SwingHor(val) == IF val \in {2, 3} THEN 1 ELSE 0

\* the dict swm of set_swing_mode, as a sequence of <<key, value>>
SwingWrites(c, val) ==
    (IF c.prop_vertical_swing THEN << <<NameVerticalSwing, SwingVer(val)>> >> ELSE <<>>)
    \o (IF c.prop_horizontal_swing THEN << <<NameHorizontalSwing, SwingHor(val)>> >> ELSE <<>>)

\* the loop of set_swing_mode over swm.items(), from index i; st.r is ret
RECURSIVE set_swing_loop(_, _, _, _)
set_swing_loop(st, oks, swm, i) ==
    IF i > Len(swm) THEN st
    ELSE LET mk == swm[i][1]
             mv == swm[i][2]
             old == st.a[mk]
         IN  IF old = None \/ mv = None THEN set_swing_loop(st, oks, swm, i + 1)
             ELSE IF mv = old THEN set_swing_loop(st, oks, swm, i + 1)
             ELSE set_swing_loop(set_property(st, oks, mk, mv), oks, swm, i + 1)

\* set_swing_mode
set_swing_mode(c, st, oks, mode) ==
    set_swing_loop(Return(st, None), oks, SwingWrites(c, SwingValue(mode)), 1)

-----------------------------------------------------------------------------
(* MiotClimateEntity: fan mode *)

\* fan_mode's "return None"
NoFanMode == "none"

\* MiotProperty.list_description(val): the description of the first entry
\* whose value is val
RECURSIVE list_description(_, _)
list_description(vl, val) ==
    IF vl = <<>> THEN NoFanMode
    ELSE IF Head(vl).value = val THEN Head(vl).description
    ELSE list_description(Tail(vl), val)

\* MiotProperty.list_description(None): all the descriptions, in order
list_descriptions(vl) == [i \in 1..Len(vl) |-> vl[i].description]

\* fan_mode
fan_mode(c, a) ==
    IF prop_fan_level(c).present /\ from_dict(KeyFanLevel(c), a, None) # None
    THEN list_description(prop_fan_level(c).value_list,
                          from_dict(KeyFanLevel(c), a, None))
    ELSE NoFanMode

\* fan_modes, with None as the empty list: both are falsy to its one caller
fan_modes(c) ==
    IF prop_fan_level(c).present THEN list_descriptions(prop_fan_level(c).value_list)
    ELSE <<>>

\* set_fan_mode
set_fan_mode(c, st, oks, mode) ==
    IF prop_fan_level(c).present
    THEN set_property(st, oks, KeyFanLevel(c),
                      list_value(prop_fan_level(c).value_list, mode))
    ELSE Return(st, 0)

-----------------------------------------------------------------------------
(* MiotClimateEntity: feature flags *)

SUPPORT_TARGET_TEMPERATURE == "TargetTemperature"
SUPPORT_TARGET_HUMIDITY == "TargetHumidity"
SUPPORT_FAN_MODE == "FanMode"
SUPPORT_SWING_MODE == "SwingMode"

\* self._supported_features as __init__ leaves it (lines 122-129), a set of
\* flags
supported_features(c) ==
    (IF c.prop_target_temp.present THEN {SUPPORT_TARGET_TEMPERATURE} ELSE {})
    \cup (IF c.prop_target_humi.present THEN {SUPPORT_TARGET_HUMIDITY} ELSE {})
    \cup (IF \/ fan_modes(c) # <<>>
             \/ /\ c.prop_mode.present
                /\ list_first(c.prop_mode.value_list, <<"Fan">>) # None
          THEN {SUPPORT_FAN_MODE} ELSE {})
    \cup (IF c.prop_horizontal_swing \/ c.prop_vertical_swing
          THEN {SUPPORT_SWING_MODE} ELSE {})

-----------------------------------------------------------------------------
(* MiotWasherSubEntity (fan.py): a sub-entity wrapping one property of a   *)
(* washer.  Its schema is [name, value_list]; its state is the parent's    *)
(* cached state, keyed by the parent's 'on' property and the wrapped       *)
(* property.                                                               *)

KeyWasherOn == "washer.on"

\* self._attr: miot_property.full_name
KeyWasherProp(c) ==
    CASE c.name = "spin_speed" -> "washer.spin_speed"
      [] c.name = "target_temperature" -> "washer.target_temperature"
      [] c.name = "drying_level" -> "washer.drying_level"
      [] c.name = "mode" -> "washer.mode"

WasherNames == {"spin_speed", "target_temperature", "drying_level", "mode"}

WasherKeys == {KeyWasherOn} \cup {KeyWasherProp([name |-> n]) : n \in WasherNames}

\* a Python value with its type: a raw value (an int), None, or a list of
\* raw values; values of different types are not equal
PyValue(v) ==
    IF v = None THEN [type |-> "NoneType", val |-> <<>>]
    ELSE [type |-> "int", val |-> <<v>>]

PyList(s) == [type |-> "list", val |-> s]

\* MiotProperty.list_search(*args): the list of the raw values of all the
\* entries whose description is among args
RECURSIVE list_search(_, _)
list_search(vl, args) ==
    IF vl = <<>> THEN <<>>
    ELSE IF \E i \in 1..Len(args) : Head(vl).description = args[i]
    THEN <<Head(vl).value>> \o list_search(Tail(vl), args)
    ELSE list_search(Tail(vl), args)

\* self._parent.is_on: the parent's 'on' property in the cached state
washer_parent_is_on(a) == AndTrue(a[KeyWasherOn])

\* sta != self._miot_property.list_search(des), as 1 or 0
washer_differs(c, a, des) ==
    IF PyValue(a[KeyWasherProp(c)]) # PyList(list_search(c.value_list, <<des>>))
    THEN 1 ELSE 0

\* MiotWasherSubEntity.is_on
washer_is_on(c, a) ==
    IF ~Truthy(washer_parent_is_on(a)) THEN 0
    ELSE IF c.name = "spin_speed" THEN washer_differs(c, a, "no spin")
    ELSE IF c.name = "target_temperature" THEN washer_differs(c, a, "cold")
    ELSE IF c.name = "drying_level" THEN washer_differs(c, a, "none")
    ELSE 1

\* MiotWasherSubEntity.set_speed
washer_set_speed(c, st, oks, speed) ==
    IF list_first(c.value_list, <<speed>>) # None
    THEN set_property(st, oks, KeyWasherProp(c), list_first(c.value_list, <<speed>>))
    ELSE Return(st, 0)

\* MiotWasherSubEntity.turn_on; the parent's turn_on writes its 'on'
\* property; speed is NoMode when it is not given
washer_turn_on(c, st, oks, speed) ==
    LET s1 == IF ~Truthy(washer_parent_is_on(st.a))
              THEN set_property(st, oks, KeyWasherOn, 1)
              ELSE Return(st, 0)
    IN  IF speed # NoMode THEN washer_set_speed(c, s1, oks, speed) ELSE s1

-----------------------------------------------------------------------------
(* MiotFanEntity (fan.py).  Its schema is [direction, speed]: the value    *)
(* lists of the direction property (horizontal_angle) and of the speed     *)
(* property (fan_level); the service has an 'on' property (line 57).       *)

DIRECTION_FORWARD == "forward"
DIRECTION_REVERSE == "reverse"
\* current_direction's "return None"
NoDirection == "none"

KeyFanOn == "fan.on"
KeyFanSpeed == "fan.fan_level"
KeyFanDirection == "fan.horizontal_angle"

FanKeys == {KeyFanOn, KeyFanSpeed, KeyFanDirection}

\* MiotToggleEntity.is_on: the 'on' property in the cached state
fan_is_on(a) == AndTrue(a[KeyFanOn])

\* int(self._state_attrs.get(self._prop_direction.full_name) or 0)
direction_num(a) == IF Truthy(a[KeyFanDirection]) THEN a[KeyFanDirection] ELSE 0

\* vls of current_direction: the truthy declared values, or [-1]
direction_vls(c) ==
    IF \E i \in 1..Len(c.direction) : Truthy(c.direction[i].value)
    THEN {c.direction[i].value : i \in {j \in 1..Len(c.direction) :
                                            Truthy(c.direction[j].value)}}
    ELSE {-1}

SetMin(S) == CHOOSE x \in S : \A y \in S : x <= y

SetMax(S) == CHOOSE x \in S : \A y \in S : x >= y

\* current_direction
current_direction(c, a) ==
    IF direction_num(a) <= SetMin(direction_vls(c)) THEN DIRECTION_REVERSE
    ELSE IF direction_num(a) >= SetMax(direction_vls(c)) THEN DIRECTION_FORWARD
    ELSE NoDirection

\* the for loop of set_direction over the value list, from index i
RECURSIVE set_direction_loop(_, _, _, _)
set_direction_loop(c, direction, num, i) ==
    IF i > Len(c.direction) THEN num
    ELSE LET n == IF Truthy(c.direction[i].value) THEN c.direction[i].value ELSE -1
         IN  IF n < 0 THEN set_direction_loop(c, direction, num, i + 1)
             ELSE IF direction = DIRECTION_REVERSE
             THEN set_direction_loop(c, direction, IF n < num THEN n ELSE num, i + 1)
             ELSE set_direction_loop(c, direction, IF n > num THEN n ELSE num, i + 1)

\* set_direction
set_direction(c, st, oks, direction) ==
    set_property(st, oks, KeyFanDirection,
                 set_direction_loop(c, direction, direction_num(st.a), 1))

\* set_speed
fan_set_speed(c, st, oks, speed) ==
    IF list_value(c.speed, speed) # None
    THEN set_property(st, oks, KeyFanSpeed, list_value(c.speed, speed))
    ELSE Return(st, 0)

\* turn_on; speed is NoMode when it is not given
fan_turn_on(c, st, oks, speed) ==
    LET s1 == IF ~Truthy(fan_is_on(st.a)) THEN set_property(st, oks, KeyFanOn, 1)
              ELSE Return(st, 0)
    IN  IF speed # NoMode THEN fan_set_speed(c, s1, oks, speed) ELSE s1

-----------------------------------------------------------------------------
(* The state snapshot of a refresh: every mapped property holds one of its *)
(* values or None (the device did not report it); the snapshot replaces    *)
(* the cached state.                                                       *)

DeclaredValues(p) == {p.value_list[i].value : i \in 1..Len(p.value_list)}

KeyValues(c, k) ==
    CASE k = KeyPower -> IF c.prop_power THEN BoolValues ELSE {}
      [] k = KeyMode -> IF c.prop_mode.present THEN DeclaredValues(c.prop_mode) ELSE {}
      [] k = KeyTargetTemp ->
            IF c.prop_target_temp.present
            THEN c.prop_target_temp.min..c.prop_target_temp.max ELSE {}
      [] k = KeyTargetHumi ->
            IF c.prop_target_humi.present
            THEN c.prop_target_humi.min..c.prop_target_humi.max ELSE {}
      [] k = KeyFanPower -> IF c.prop_fan_power THEN BoolValues ELSE {}
      [] k = KeyVerticalSwing -> IF c.prop_vertical_swing THEN BoolValues ELSE {}
      [] k = KeyHorizontalSwing -> IF c.prop_horizontal_swing THEN BoolValues ELSE {}
      [] k \in {KeyPowerMode(m) : m \in PowerModeNames} ->
            IF \E m \in c.power_props : k = KeyPowerMode(m) THEN BoolValues ELSE {}
      [] k = KeyFanLevel(c) ->
            IF prop_fan_level(c).present THEN DeclaredValues(prop_fan_level(c)) ELSE {}
      [] OTHER -> {}

Reported(c, k) == KeyValues(c, k) \cup {None}

Snapshots(c) ==
    {[k \in Keys |->
        CASE k = KeyPower -> t[1]
          [] k = KeyMode -> t[2]
          [] k = KeyTargetTemp -> t[3]
          [] k = KeyTargetHumi -> t[4]
          [] k = KeyFanPower -> t[5]
          [] k = KeyVerticalSwing -> t[6]
          [] k = KeyHorizontalSwing -> t[7]
          [] k = KeyPowerMode(power_modes[1]) -> t[8]
          [] k = KeyPowerMode(power_modes[2]) -> t[9]
          [] k = KeyPowerMode(power_modes[3]) -> t[10]
          [] k = KeyFanLevel(c) -> t[11]
          [] OTHER -> None] :
     t \in Reported(c, KeyPower) \X Reported(c, KeyMode) \X Reported(c, KeyTargetTemp)
           \X Reported(c, KeyTargetHumi) \X Reported(c, KeyFanPower)
           \X Reported(c, KeyVerticalSwing) \X Reported(c, KeyHorizontalSwing)
           \X Reported(c, KeyPowerMode(power_modes[1]))
           \X Reported(c, KeyPowerMode(power_modes[2]))
           \X Reported(c, KeyPowerMode(power_modes[3]))
           \X Reported(c, KeyFanLevel(c))}

Empty == [k \in Keys |-> None]

Op(name, mode, num, swing) == [name |-> name, mode |-> mode, num |-> num, swing |-> swing]

\* the outcomes of the transport calls of one handler
Outcomes == [1..MaxCalls -> BOOLEAN]

\* the state after the handler that ended in st
Done(o, st, oks) ==
    /\ \A i \in (Len(st.l) + 1)..MaxCalls : oks[i]    \* only the calls made have an outcome
    /\ attrs' = st.a
    /\ pre' = attrs
    /\ op' = o
    /\ ret' = st.r
    /\ log' = st.l
    /\ UNCHANGED cfg

ModeProps == {NoProp} \cup {ListProp(vl) : vl \in ModeLists}

RangeProps == {NoProp} \cup {r \in Ranges : r.min <= r.max}

\* async_setup_platform makes an entity only of a service that has an 'on'
\* or a 'mode' property (lines 57-58)
Supported(c) == c.prop_power \/ c.prop_mode.present

\* the power and mode schema, without the other optional properties; with
\* a dedicated power property turn_on and turn_off never get to the fan
\* power property or the actions, which are left out there
PowerConfigs ==
    { c \in [ prop_power : BOOLEAN,
              power_props : PowerPropSets,
              prop_mode : ModeProps,
              prop_fan_power : BOOLEAN,
              power_on_action : BOOLEAN,
              stop_action : BOOLEAN,
              prop_target_temp : {NoProp},
              prop_target_humi : {NoProp},
              prop_vertical_swing : {FALSE},
              prop_horizontal_swing : {FALSE},
              srv_fan_level : {NoProp},
              fan_control : BOOLEAN,
              fc_fan_level : {NoProp} ] :
        /\ Supported(c)
        /\ c.fan_control = c.prop_fan_power
        /\ c.prop_power => ~c.prop_fan_power /\ ~c.power_on_action /\ ~c.stop_action }

\* the target temperature schema, with a dedicated power property or a mode
\* property
TempConfigs ==
  { c \in
    [ prop_power : BOOLEAN,
      power_props : {{}},
      prop_mode : {NoProp, ListProp(<<VL(0, "Idle"), VL(1, "Off"), VL(2, "Heat")>>)},
      prop_fan_power : {FALSE},
      power_on_action : {FALSE},
      stop_action : {FALSE},
      prop_target_temp : RangeProps,
      prop_target_humi : {NoProp},
      prop_vertical_swing : {FALSE},
      prop_horizontal_swing : {FALSE},
      srv_fan_level : {NoProp},
      fan_control : {FALSE},
      fc_fan_level : {NoProp} ] : Supported(c) }

\* the target humidity schema
HumiConfigs ==
    [ prop_power : {TRUE},
      power_props : {{}},
      prop_mode : {NoProp},
      prop_fan_power : {FALSE},
      power_on_action : {FALSE},
      stop_action : {FALSE},
      prop_target_temp : {NoProp},
      prop_target_humi : RangeProps,
      prop_vertical_swing : {FALSE},
      prop_horizontal_swing : {FALSE},
      srv_fan_level : {NoProp},
      fan_control : {FALSE},
      fc_fan_level : {NoProp} ]

\* the fan_control schema (on, vertical_swing, horizontal_swing), with a
\* dedicated power property or a mode property
SwingConfigs ==
  { c \in
    [ prop_power : BOOLEAN,
      power_props : {{}},
      prop_mode : {NoProp, ListProp(<<VL(0, "Auto"), VL(1, "Cool")>>)},
      prop_fan_power : BOOLEAN,
      power_on_action : {FALSE},
      stop_action : {FALSE},
      prop_target_temp : {NoProp},
      prop_target_humi : {NoProp},
      prop_vertical_swing : BOOLEAN,
      prop_horizontal_swing : BOOLEAN,
      srv_fan_level : {NoProp},
      fan_control : BOOLEAN,
      fc_fan_level : {NoProp} ] :
        /\ Supported(c)
        /\ c.fan_control = (c.prop_fan_power \/ c.prop_vertical_swing
                                             \/ c.prop_horizontal_swing) }

\* the fan-level value lists the model draws from; one declares the raw
\* value 0
FanLevelLists ==
    { <<VL(0, "Auto"), VL(1, "Low"), VL(2, "High")>>,
      <<VL(1, "Low"), VL(2, "High")>> }

FanLevelProps == {NoProp} \cup {ListProp(vl) : vl \in FanLevelLists}

\* the fan-level schema: a fan_level property of the primary service, of a
\* fan_control service, of both or of none, on a device with a dedicated
\* power property
FanModeConfigs ==
  { c \in
    [ prop_power : {TRUE},
      power_props : {{}},
      prop_mode : {NoProp},
      prop_fan_power : {FALSE},
      power_on_action : {FALSE},
      stop_action : {FALSE},
      prop_target_temp : {NoProp},
      prop_target_humi : {NoProp},
      prop_vertical_swing : {FALSE},
      prop_horizontal_swing : {FALSE},
      srv_fan_level : FanLevelProps,
      fan_control : BOOLEAN,
      fc_fan_level : FanLevelProps ] : c.fc_fan_level.present => c.fan_control }

AllConfigs == PowerConfigs \cup TempConfigs \cup HumiConfigs \cup SwingConfigs
              \cup FanModeConfigs

\* the schemas the feature flags are computed of: every optional property
\* declared or not, a fan_level with a value list, with an empty one or
\* none in the primary service and in fan_control, a mode list with and
\* without "Fan"
FeatureConfigs ==
  { c \in
    [ prop_power : BOOLEAN,
      power_props : {{}},
      prop_mode : {NoProp, ListProp(<<VL(0, "Auto"), VL(1, "Cool")>>),
                   ListProp(<<VL(1, "Cool"), VL(2, "Fan")>>)},
      prop_fan_power : {FALSE},
      power_on_action : {FALSE},
      stop_action : {FALSE},
      prop_target_temp : {NoProp, RangeProp(1, MaxTemp)},
      prop_target_humi : {NoProp, RangeProp(1, MaxTemp)},
      prop_vertical_swing : BOOLEAN,
      prop_horizontal_swing : BOOLEAN,
      srv_fan_level : FanLevelProps \cup {ListProp(<<>>)},
      fan_control : BOOLEAN,
      fc_fan_level : FanLevelProps \cup {ListProp(<<>>)} ] :
        /\ Supported(c)
        /\ (c.prop_vertical_swing \/ c.prop_horizontal_swing \/ c.fc_fan_level.present)
           => c.fan_control }

\* the value lists of the washer properties the model draws from: with the
\* off sentinel of each property, as its raw value 0 or another, and
\* without any
WasherLists ==
    { <<VL(0, "no spin"), VL(1, "cold"), VL(2, "none"), VL(3, "high")>>,
      <<VL(0, "high"), VL(1, "none"), VL(2, "no spin"), VL(3, "cold")>>,
      <<VL(1, "low"), VL(2, "high")>> }

WasherConfigs == [name : WasherNames, value_list : WasherLists]

WasherEmpty == [k \in WasherKeys |-> None]

\* the parent's state after a refresh: its 'on' property and the wrapped
\* property hold one of their values or None
WasherSnapshots(c) ==
    {[k \in WasherKeys |->
        CASE k = KeyWasherOn -> t[1]
          [] k = KeyWasherProp(c) -> t[2]
          [] OTHER -> None] :
     t \in (BoolValues \cup {None})
           \X ({c.value_list[i].value : i \in 1..Len(c.value_list)} \cup {None})}

\* the value lists of the direction property the model draws from: several
\* angles, a list that declares the value 0, and a single non-zero value
DirectionLists ==
    { <<VL(1, "30"), VL(2, "60"), VL(3, "90")>>,
      <<VL(0, "0"), VL(1, "30"), VL(2, "60")>>,
      <<VL(2, "60")>> }

FanConfigs ==
    [ direction : DirectionLists,
      speed : {<<VL(1, "Low"), VL(2, "High")>>} ]

FanEmpty == [k \in FanKeys |-> None]

\* the fan's state after a refresh: each property holds one of its values
\* or None
FanSnapshots(c) ==
    {[k \in FanKeys |->
        CASE k = KeyFanOn -> t[1]
          [] k = KeyFanSpeed -> t[2]
          [] k = KeyFanDirection -> t[3]] :
     t \in (BoolValues \cup {None})
           \X ({c.speed[i].value : i \in 1..Len(c.speed)} \cup {None})
           \X ({c.direction[i].value : i \in 1..Len(c.direction)} \cup {None})}

\* Snapshots, tabulated once
SnapshotTable == [c \in AllConfigs |-> Snapshots(c)]

-----------------------------------------------------------------------------
(* Actions: one per facade operation, and the periodic refresh *)

\* async_update: the refresh replaces the cached state by a snapshot
AsyncUpdate ==
    /\ \E a \in SnapshotTable[cfg] : attrs' = a
    /\ pre' = attrs'
    /\ op' = Op("async_update", NoMode, None, NoSwing)
    /\ ret' = None
    /\ log' = <<>>
    /\ UNCHANGED cfg

TurnOn ==
    \E oks \in Outcomes :
        Done(Op("turn_on", NoMode, None, NoSwing), turn_on(cfg, Start(attrs), oks), oks)

TurnOff ==
    \E oks \in Outcomes :
        Done(Op("turn_off", NoMode, None, NoSwing), turn_off(cfg, Start(attrs), oks), oks)

\* the modes requested of set_hvac_mode; HVAC_MODE_DRY is one no value list
\* of ModeLists declares
HvacInputs == {HVAC_MODE_OFF, HVAC_MODE_AUTO, HVAC_MODE_COOL, HVAC_MODE_HEAT, HVAC_MODE_DRY}

SetHvacMode ==
    \E oks \in Outcomes, mode \in HvacInputs :
        Done(Op("set_hvac_mode", mode, None, NoSwing),
             set_hvac_mode(cfg, Start(attrs), oks, mode), oks)

\* the temperatures and humidities requested: from below every range to above
Requested == 0..(MaxTemp + 1)

SetTemperature ==
    \E oks \in Outcomes, mode \in {NoMode, HVAC_MODE_OFF, HVAC_MODE_HEAT},
       temperature \in Requested \cup {None} :
        Done(Op("set_temperature", mode, temperature, NoSwing),
             set_temperature(cfg, Start(attrs), oks, mode, temperature), oks)

SetHumidity ==
    \E oks \in Outcomes, humidity \in Requested :
        Done(Op("set_humidity", NoMode, humidity, NoSwing),
             set_humidity(cfg, Start(attrs), oks, humidity), oks)

SetSwingMode ==
    \E oks \in Outcomes, mode \in {SwingModes[i] : i \in 1..Len(SwingModes)} :
        Done(Op("set_swing_mode", NoMode, None, mode),
             set_swing_mode(cfg, Start(attrs), oks, mode), oks)

\* the fan modes requested of set_fan_mode; "Turbo" is one no value list of
\* FanLevelLists declares
FanModeInputs == {"Auto", "Low", "High", "Turbo"}

SetFanMode ==
    \E oks \in Outcomes, mode \in FanModeInputs :
        Done(Op("set_fan_mode", mode, None, NoSwing),
             set_fan_mode(cfg, Start(attrs), oks, mode), oks)

\* supported_features: the platform reads the feature flags
SupportedFeatures ==
    /\ op' = Op("supported_features", NoMode, None, NoSwing)
    /\ ret' = supported_features(cfg)
    /\ pre' = attrs
    /\ log' = <<>>
    /\ UNCHANGED <<cfg, attrs>>

\* the sub-entity's update: it takes over the parent's refreshed state
WasherUpdate ==
    /\ \E a \in WasherSnapshots(cfg) : attrs' = a
    /\ pre' = attrs'
    /\ op' = Op("update", NoMode, None, NoSwing)
    /\ ret' = None
    /\ log' = <<>>
    /\ UNCHANGED cfg

\* the speeds requested of the washer sub-entity; "medium" is one no value
\* list of WasherLists declares
WasherSpeeds == {"no spin", "cold", "none", "high", "medium"}

WasherSetSpeed ==
    \E oks \in Outcomes, speed \in WasherSpeeds :
        Done(Op("set_speed", speed, None, NoSwing),
             washer_set_speed(cfg, Start(attrs), oks, speed), oks)

WasherTurnOn ==
    \E oks \in Outcomes, speed \in {NoMode, "high"} :
        Done(Op("turn_on", speed, None, NoSwing),
             washer_turn_on(cfg, Start(attrs), oks, speed), oks)

\* the fan's async_update: the refresh replaces the cached state
FanUpdate ==
    /\ \E a \in FanSnapshots(cfg) : attrs' = a
    /\ pre' = attrs'
    /\ op' = Op("async_update", NoMode, None, NoSwing)
    /\ ret' = None
    /\ log' = <<>>
    /\ UNCHANGED cfg

FanSetDirection ==
    \E oks \in Outcomes, direction \in {DIRECTION_FORWARD, DIRECTION_REVERSE} :
        Done(Op("set_direction", direction, None, NoSwing),
             set_direction(cfg, Start(attrs), oks, direction), oks)

FanTurnOn ==
    \E oks \in Outcomes, speed \in {NoMode, "Low", "High", "Turbo"} :
        Done(Op("turn_on", speed, None, NoSwing),
             fan_turn_on(cfg, Start(attrs), oks, speed), oks)

-----------------------------------------------------------------------------
(* Specifications.  Each draws the schema from the devices its operations  *)
(* depend on; the cached state is empty after construction.                *)

InitWith(configs) ==
    /\ cfg \in configs
    /\ attrs = Empty
    /\ pre = Empty
    /\ op = Op("init", NoMode, None, NoSwing)
    /\ ret = None
    /\ log = <<>>

Init == InitWith(PowerConfigs)

Next == TurnOn \/ TurnOff \/ SetHvacMode \/ AsyncUpdate

Spec == Init /\ [][Next]_vars

\* the target temperature setter
InitTemp == InitWith(TempConfigs)

NextTemp == SetTemperature \/ AsyncUpdate

SpecTemp == InitTemp /\ [][NextTemp]_vars

\* the target humidity setter
InitHumi == InitWith(HumiConfigs)

NextHumi == SetHumidity \/ TurnOn \/ TurnOff \/ AsyncUpdate

SpecHumi == InitHumi /\ [][NextHumi]_vars

\* the swing setter on a device with a fan_control service
InitSwing == InitWith(SwingConfigs)

NextSwing == SetSwingMode \/ TurnOn \/ TurnOff \/ AsyncUpdate

SpecSwing == InitSwing /\ [][NextSwing]_vars

\* the fan mode setter
InitFanMode == InitWith(FanModeConfigs)

NextFanMode == SetFanMode \/ TurnOn \/ TurnOff \/ AsyncUpdate

SpecFanMode == InitFanMode /\ [][NextFanMode]_vars

\* the feature flags
InitFeatures == InitWith(FeatureConfigs)

NextFeatures == SupportedFeatures

SpecFeatures == InitFeatures /\ [][NextFeatures]_vars

\* the washer sub-entity
InitWasher ==
    /\ cfg \in WasherConfigs
    /\ attrs = WasherEmpty
    /\ pre = WasherEmpty
    /\ op = Op("init", NoMode, None, NoSwing)
    /\ ret = None
    /\ log = <<>>

NextWasher == WasherSetSpeed \/ WasherTurnOn \/ WasherUpdate

SpecWasher == InitWasher /\ [][NextWasher]_vars

\* the fan entity
InitFan ==
    /\ cfg \in FanConfigs
    /\ attrs = FanEmpty
    /\ pre = FanEmpty
    /\ op = Op("init", NoMode, None, NoSwing)
    /\ ret = None
    /\ log = <<>>

NextFan == FanSetDirection \/ FanTurnOn \/ FanUpdate

SpecFan == InitFan /\ [][NextFan]_vars

-----------------------------------------------------------------------------
(* Claims *)

\* every transport call of the last operation succeeded
AllOk == \A i \in 1..Len(log) : log[i].ok

\* the property writes of the last operation to key k
WritesTo(k) == {i \in 1..Len(log) : log[i].kind = "set" /\ log[i].key = k}

\* the mode property exists and resolves an Off value
OffResolved == cfg.prop_mode.present /\ hvac_value(cfg, HVAC_MODE_OFF) # None

\* a declared alternate-power property (blow, heating, ventilation) is
\* truthy in the cached state
SomePowerModeOn == \E m \in cfg.power_props : attrs[KeyPowerMode(m)] \notin {None, 0}

\* C1 as stated: on a device with no dedicated power property whose mode
\* property resolves an Off value, is_on is true exactly when the current raw
\* mode value differs from the resolved Off value.
C1_IsOnIffModeNotOff ==
    (~cfg.prop_power /\ OffResolved)
    => is_on(cfg, attrs) =
          (IF attrs[KeyMode] # hvac_value(cfg, HVAC_MODE_OFF) THEN 1 ELSE 0)

\* C1 amended: on such a device is_on is true exactly when a declared
\* alternate-power property is truthy or the current raw mode value differs
\* from the resolved Off value.
C1_IsOnIffPowerModeOrModeNotOff ==
    (~cfg.prop_power /\ OffResolved)
    => is_on(cfg, attrs) =
          (IF SomePowerModeOn \/ attrs[KeyMode] # hvac_value(cfg, HVAC_MODE_OFF)
           THEN 1 ELSE 0)

\* a refresh reported the Off value and no alternate-power property on, on a
\* device that declares one: is_on is false
C1_Witness ==
    /\ ~cfg.prop_power /\ OffResolved
    /\ cfg.power_props # {}
    /\ op.name = "async_update"
    /\ ~SomePowerModeOn
    /\ attrs[KeyMode] = hvac_value(cfg, HVAC_MODE_OFF)
    /\ is_on(cfg, attrs) = 0

\* C2: after a successful set_hvac_mode(M), all of whose writes succeeded,
\* for a mode M the value list resolves, hvac_mode is M.
C2_HvacModeRoundTrip ==
    (/\ op.name = "set_hvac_mode"
     /\ cfg.prop_mode.present
     /\ hvac_value(cfg, op.mode) # None
     /\ Truthy(ret)
     /\ AllOk)
    => hvac_mode(cfg, attrs) = op.mode

\* the four sources of is_on as the statement of C6 reads them, each
\* yielding True, False or nothing
C6_Source1 == IF cfg.prop_power THEN AndTrue(attrs[KeyPower]) ELSE None

C6_Source2 ==
    IF SomePowerModeOn THEN 1
    ELSE IF \E m \in cfg.power_props : attrs[KeyPowerMode(m)] # None THEN 0
    ELSE None

C6_Source3 ==
    IF OffResolved
    THEN (IF attrs[KeyMode] # hvac_value(cfg, HVAC_MODE_OFF) THEN 1 ELSE 0)
    ELSE None

C6_Source4 == AndTrue(attrs["power"])

\* C6 as stated: is_on is the result of the first of the four sources that
\* yields True or False, and None only when none of them yields a result.
C6_FirstResultDecides ==
    is_on(cfg, attrs) =
        (IF C6_Source1 # None THEN C6_Source1
         ELSE IF C6_Source2 # None THEN C6_Source2
         ELSE IF C6_Source3 # None THEN C6_Source3
         ELSE C6_Source4)

\* C6 amended: a declared dedicated power property decides alone (its cached
\* value "and True", None when the cached state does not hold it); without
\* one, a truthy alternate-power property makes is_on true, else a mode
\* property with a resolved Off value decides, else the generic 'power' key;
\* is_on is None only when the deciding source holds nothing.
C6_PowerChain ==
    /\ cfg.prop_power => is_on(cfg, attrs) = AndTrue(attrs[KeyPower])
    /\ (~cfg.prop_power /\ SomePowerModeOn) => is_on(cfg, attrs) = 1
    /\ (~cfg.prop_power /\ ~SomePowerModeOn /\ OffResolved)
       => is_on(cfg, attrs) = C6_Source3
    /\ (~cfg.prop_power /\ ~SomePowerModeOn /\ ~OffResolved)
       => is_on(cfg, attrs) = C6_Source4
    /\ is_on(cfg, attrs) = None
       => \/ cfg.prop_power /\ attrs[KeyPower] = None
          \/ ~cfg.prop_power /\ ~SomePowerModeOn /\ ~OffResolved /\ attrs["power"] = None

\* the last source decides: turn_off by the stop action left the shadow
\* 'power' flag false on a device whose other sources yield nothing
C6_Witness ==
    /\ ~cfg.prop_power /\ ~SomePowerModeOn /\ ~OffResolved
    /\ cfg.power_props # {}
    /\ op.name = "turn_off"
    /\ attrs["power"] = 0
    /\ is_on(cfg, attrs) = 0

\* C7: once a successful turn_off is reflected in the state is_on is not
\* true, and once a successful turn_on is reflected in the state is_on is true.
C7_TurnOnOffReflected ==
    /\ (op.name = "turn_off" /\ Truthy(ret) /\ AllOk) => ~Truthy(is_on(cfg, attrs))
    /\ (op.name = "turn_on" /\ Truthy(ret) /\ AllOk) => Truthy(is_on(cfg, attrs))

\* C8: set_hvac_mode(M) for a mode M other than Off that the device resolves
\* no value for returns False, issues no write and leaves the cached state as
\* it was.
C8_UnmappedModeChangesNothing ==
    (/\ op.name = "set_hvac_mode"
     /\ op.mode # HVAC_MODE_OFF
     /\ hvac_value(cfg, op.mode) = None)
    => (ret = 0 /\ log = <<>> /\ attrs = pre)

\* the value a clamp of v into [lo, hi] gives
Clamped(v, lo, hi) == IF v < lo THEN lo ELSE IF v > hi THEN hi ELSE v

\* C4: set_temperature writes the requested temperature clamped into the
\* range of the target-temperature property: min below it, max above it,
\* the value itself inside; the written value lies in [min, max].
C4_TemperatureClamped ==
    (/\ op.name = "set_temperature"
     /\ op.num # None
     /\ cfg.prop_target_temp.present)
    => /\ Cardinality(WritesTo(KeyTargetTemp)) = 1
       /\ \A i \in WritesTo(KeyTargetTemp) :
            /\ i = Len(log)
            /\ log[i].val = Clamped(op.num, cfg.prop_target_temp.min,
                                    cfg.prop_target_temp.max)
            /\ log[i].val >= cfg.prop_target_temp.min
            /\ log[i].val <= cfg.prop_target_temp.max

\* a temperature above the range was requested, max was written and is
\* the cached target
C4_Witness ==
    /\ op.name = "set_temperature"
    /\ cfg.prop_target_temp.present
    /\ op.num # None
    /\ op.num > cfg.prop_target_temp.max
    /\ ret = 1
    /\ log[Len(log)].val = cfg.prop_target_temp.max
    /\ attrs[KeyTargetTemp] = cfg.prop_target_temp.max

\* C9: no facade operation ends in an exception, whichever optional
\* properties the schema lacks.
C9_NoOperationRaises == ret # Raised

\* C10: set_humidity writes a value inside the range of the target-humidity
\* property.
C10_HumidityClamped ==
    (op.name = "set_humidity" /\ cfg.prop_target_humi.present /\ Truthy(ret))
    => /\ \A i \in WritesTo(KeyTargetHumi) :
            /\ log[i].val >= cfg.prop_target_humi.min
            /\ log[i].val <= cfg.prop_target_humi.max
       /\ attrs[KeyTargetHumi] >= cfg.prop_target_humi.min
       /\ attrs[KeyTargetHumi] <= cfg.prop_target_humi.max

\* both swing properties exist and the cached state held both axes when the
\* last operation started
BothAxesKnown ==
    /\ cfg.prop_vertical_swing /\ cfg.prop_horizontal_swing
    /\ pre[KeyVerticalSwing] # None /\ pre[KeyHorizontalSwing] # None

\* C3: with both swing properties, after set_swing_mode(m), all of whose
\* writes succeeded, swing_mode is m.
C3_SwingRoundTrip ==
    (op.name = "set_swing_mode" /\ BothAxesKnown /\ AllOk)
    => swing_mode(cfg, attrs) = op.swing

\* the writes of the last operation to an axis, under its full or bare name
AxisWrites(key, name) == WritesTo(key) \cup WritesTo(name)

\* C5 for one axis: no write when the property does not exist, none when the
\* requested boolean is the cached one, one when it differs from it
C5_Axis(exists, key, name, requested) ==
    /\ ~exists => AxisWrites(key, name) = {}
    /\ (exists /\ pre[key] = requested) => AxisWrites(key, name) = {}
    /\ (exists /\ pre[key] # None /\ pre[key] # requested)
       => AxisWrites(key, name) # {}

\* C5: set_swing_mode writes an axis property exactly when it exists and the
\* requested boolean differs from its cached value.
C5_SwingWritesOnlyChanges ==
    op.name = "set_swing_mode"
    => /\ C5_Axis(cfg.prop_vertical_swing, KeyVerticalSwing, NameVerticalSwing,
                  SwingVer(SwingValue(op.swing)))
       /\ C5_Axis(cfg.prop_horizontal_swing, KeyHorizontalSwing, NameHorizontalSwing,
                  SwingHor(SwingValue(op.swing)))

\* the fan-level value list declares the description d
FanModeDeclared(d) ==
    \E i \in 1..Len(prop_fan_level(cfg).value_list) :
        prop_fan_level(cfg).value_list[i].description = d

\* C11: on a device with a fan-level property, set_fan_mode(d) for a
\* declared description d writes the raw value of d, after which (the write
\* having succeeded) fan_mode is d; for a description d that is not declared
\* it returns a falsy result and issues no write.
C11_FanModeSetter ==
    (op.name = "set_fan_mode" /\ prop_fan_level(cfg).present)
    => /\ FanModeDeclared(op.mode)
          => /\ Len(log) = 1
             /\ log[1].kind = "set"
             /\ log[1].key = KeyFanLevel(cfg)
             /\ log[1].val = list_value(prop_fan_level(cfg).value_list, op.mode)
             /\ log[1].ok => fan_mode(cfg, attrs) = op.mode
       /\ ~FanModeDeclared(op.mode) => (~Truthy(ret) /\ log = <<>>)

\* the last operation invoked a device action, as its first transport call
ActionInvoked == log # <<>> /\ log[1].kind = "action"

\* C12: when turn_on (turn_off) invokes a device action and the action
\* succeeds, the shadow 'power' flag of the cached state is true (false) and
\* is_on returns that value; when the action fails, the shadow flag is what
\* it was.
C12_ActionPowerShadow ==
    /\ (op.name = "turn_on" /\ ActionInvoked /\ log[1].ok)
       => (attrs["power"] = 1 /\ is_on(cfg, attrs) = 1)
    /\ (op.name = "turn_off" /\ ActionInvoked /\ log[1].ok)
       => (attrs["power"] = 0 /\ is_on(cfg, attrs) = 0)
    /\ (op.name \in {"turn_on", "turn_off"} /\ ActionInvoked /\ ~log[1].ok)
       => attrs["power"] = pre["power"]

\* a service declares a fan_level property with a non-empty list of
\* descriptions
FanLevelDeclared(p) == p.present /\ p.value_list # <<>>

\* C13: the flags advertised include FanMode whenever the primary service or
\* fan_control declares a fan_level property with a non-empty description
\* list, and whenever the mode property declares 'Fan'; they include
\* TargetTemperature, TargetHumidity and SwingMode exactly when
\* target_temperature, target_humidity, resp. a swing axis is declared.
C13_FeatureFlags ==
    op.name = "supported_features"
    => /\ (FanLevelDeclared(cfg.srv_fan_level)
           \/ (cfg.fan_control /\ FanLevelDeclared(cfg.fc_fan_level)))
          => SUPPORT_FAN_MODE \in ret
       /\ (cfg.prop_mode.present
           /\ \E i \in 1..Len(cfg.prop_mode.value_list) :
                 cfg.prop_mode.value_list[i].description = "Fan")
          => SUPPORT_FAN_MODE \in ret
       /\ SUPPORT_TARGET_TEMPERATURE \in ret <=> cfg.prop_target_temp.present
       /\ SUPPORT_TARGET_HUMIDITY \in ret <=> cfg.prop_target_humi.present
       /\ SUPPORT_SWING_MODE \in ret
          <=> (cfg.prop_vertical_swing \/ cfg.prop_horizontal_swing)

\* the description of the off sentinel of the wrapped property
WasherSentinel ==
    CASE cfg.name = "spin_speed" -> "no spin"
      [] cfg.name = "target_temperature" -> "cold"
      [] cfg.name = "drying_level" -> "none"

\* the current value of the wrapped property is a raw value described by
\* the off sentinel
WasherAtSentinel ==
    \E i \in 1..Len(cfg.value_list) :
        /\ cfg.value_list[i].description = WasherSentinel
        /\ cfg.value_list[i].value = attrs[KeyWasherProp(cfg)]

\* C14: for a sub-entity wrapping spin_speed, target_temperature or
\* drying_level, is_on is false whenever the parent is off; when the parent
\* is on it is false exactly when the current value of the property is the
\* raw value described 'no spin', 'cold', resp. 'none'.
C14_WasherOffSentinel ==
    cfg.name \in {"spin_speed", "target_temperature", "drying_level"}
    => IF ~Truthy(washer_parent_is_on(attrs)) THEN washer_is_on(cfg, attrs) = 0
       ELSE washer_is_on(cfg, attrs) = 0 <=> WasherAtSentinel

\* the values the direction property declares
DirectionValues == {cfg.direction[i].value : i \in 1..Len(cfg.direction)}

\* C15: after set_direction(d), its write reflected in the state,
\* current_direction is d; set_direction(reverse) writes the smallest and
\* set_direction(forward) the largest declared value.
C15_DirectionRoundTrip ==
    (op.name = "set_direction" /\ log[1].ok)
    => /\ current_direction(cfg, attrs) = op.mode
       /\ log[1].val = (IF op.mode = DIRECTION_REVERSE THEN SetMin(DirectionValues)
                        ELSE SetMax(DirectionValues))

=============================================================================
